---- MODULE Spec2Model ----
(***************************************************************************)
(* The notes backend: the five request handlers of api/notes.py and the    *)
(* storage helpers of api/db.py, over one SQLite table `notes`.            *)
(*                                                                         *)
(* A string is modelled by its repeated character and its length           *)
(* ([ch, len]); only the length is read by the code (pydantic's            *)
(* min_length/max_length), the rest is stored and returned as is.          *)
(* A timestamp is the number of whole seconds CURRENT_TIMESTAMP has        *)
(* counted: SQLite's CURRENT_TIMESTAMP has a resolution of one second.     *)
(* The wall clock is taken to be non-decreasing.                           *)
(***************************************************************************)
EXTENDS Integers, Sequences, FiniteSets, TLC

\* ---- bounds of the model
MaxSeq == 2
MaxClock == 1
MaxLeaked == 1
NumWorkers == 2

\* ---- program constants
MaxTitleLength == 200
MaxContentLength == 50000
MaxLimit == 500
HTTP_200_OK == 200
HTTP_201_CREATED == 201
HTTP_204_NO_CONTENT == 204
HTTP_404_NOT_FOUND == 404
HTTP_422_UNPROCESSABLE_ENTITY == 422
HTTP_500_INTERNAL_SERVER_ERROR == 500

VARIABLES
    schema,     \* "none" | "table" | "full": what ensure_schema has created
    started,    \* the startup event has completed: requests are served
    notes,      \* the rows of table notes
    seq,        \* sqlite_sequence.seq of table notes (AUTOINCREMENT)
    now,        \* CURRENT_TIMESTAMP, in seconds
    open,       \* connections opened and not closed
    last,       \* the last response sent
    ever,       \* history: ids of every row ever committed
    deleted,    \* history: ids whose delete_note returned 204
    workers     \* requests in flight, one per worker thread (WorkerSpec)

vars == <<schema, started, notes, seq, now, open, last, ever, deleted, workers>>

\* Python's None
None == [none |-> TRUE]

Str(ch, n) == [ch |-> ch, len |-> n]

Min(a, b) == IF a < b THEN a ELSE b
Max(a, b) == IF a > b THEN a ELSE b

\* ---- inputs
\* strings at the limits of the length checks, and just outside them
TitleA == Str("a", 1)
TitleB == Str("b", MaxTitleLength)
ContentX == Str("x", 1)
ContentY == Str("y", MaxContentLength)
TitleEmpty == Str("", 0)
TitleLong == Str("c", MaxTitleLength + 1)
ContentEmpty == Str("", 0)
ContentLong == Str("z", MaxContentLength + 1)

CreateInputs ==
    {<<TitleA, ContentX>>, <<TitleB, ContentY>>,
     <<TitleEmpty, ContentX>>, <<TitleLong, ContentX>>,
     <<TitleA, ContentEmpty>>, <<TitleA, ContentLong>>}
IdInputs == 0 .. MaxSeq
UpdateInputs ==
    (IdInputs \X {<<TitleA, None>>, <<None, ContentY>>, <<TitleB, ContentX>>})
    \cup ({0, MaxSeq} \X {<<None, None>>})
    \cup ({1} \X {<<TitleEmpty, None>>, <<TitleLong, None>>,
                  <<None, ContentEmpty>>, <<None, ContentLong>>})
ListInputs ==
    {<<1, 0>>, <<2, 1>>, <<MaxLimit, 0>>,
     <<0, 0>>, <<MaxLimit + 1, 0>>, <<MaxLimit, -1>>}

\* ---- pydantic models
TitleOkNoMin(t) == t.len <= MaxTitleLength
TitleOk(t) == t.len >= 1 /\ t.len <= MaxTitleLength
ContentOk(c) == c.len >= 1 /\ c.len <= MaxContentLength

NoteBase(title, content) == TitleOk(title) /\ ContentOk(content)

NoteCreate(title, content) == NoteBase(title, content)

NoteUpdate(title, content) ==
    /\ title # None => TitleOk(title)
    /\ content # None => ContentOk(content)

NoteOut(row) == row # None /\ NoteBase(row.title, row.content)

\* NoteOut.model_validate(row): raises pydantic's ValidationError, which is
\* no sqlite3.Error and no HTTPException, when row is None.
_parse_note_row(row) ==
    IF NoteOut(row) THEN [ok |-> TRUE, note |-> row] ELSE [ok |-> FALSE, note |-> None]

\* ---- SQL statements
RowIds(rows) == {r.id : r \in rows}

MaxRowId(rows) == IF rows = {} THEN 0 ELSE CHOOSE i \in RowIds(rows) : \A j \in RowIds(rows) : j <= i

\* id INTEGER PRIMARY KEY AUTOINCREMENT
NextRowIdNoAutoincrement(rows, sq) == MaxRowId(rows) + 1
NextRowId(rows, sq) == Max(sq, MaxRowId(rows)) + 1

\* INSERT INTO notes (title, content) VALUES (?, ?)
InsertStmtSwapped(rows, id, title, content, t) ==
    rows \cup {[id |-> id, title |-> content, content |-> title,
                created_at |-> t, updated_at |-> t]}
InsertStmt(rows, id, title, content, t) ==
    rows \cup {[id |-> id, title |-> title, content |-> content,
                created_at |-> t, updated_at |-> t]}

\* SELECT id, title, content, created_at, updated_at FROM notes WHERE id = ?
SelectById(rows, id) ==
    IF id \in RowIds(rows) THEN CHOOSE r \in rows : r.id = id ELSE None

\* TRIGGER notes_set_updated_at AFTER UPDATE ON notes FOR EACH ROW
TriggerKeepsUpdatedAt(rows, id, t) == rows
notes_set_updated_at(rows, id, t) ==
    {IF r.id = id THEN [r EXCEPT !.updated_at = t] ELSE r : r \in rows}

\* UPDATE notes SET title = ?, content = ? / title = ? / content = ?  WHERE id = ?
SetColumnsAllRows(rows, id, title, content) ==
    {[r EXCEPT !.title = IF title # None THEN title ELSE @,
               !.content = IF content # None THEN content ELSE @] : r \in rows}
SetColumns(rows, id, title, content) ==
    {IF r.id = id
        THEN [r EXCEPT !.title = IF title # None THEN title ELSE @,
                       !.content = IF content # None THEN content ELSE @]
        ELSE r : r \in rows}

UpdateStmt(rows, id, title, content, t, trigger) ==
    LET set == SetColumns(rows, id, title, content)
    IN  IF trigger /\ id \in RowIds(rows) THEN notes_set_updated_at(set, id, t) ELSE set

\* DELETE FROM notes WHERE id = ?
DeleteStmt(rows, id) == {r \in rows : r.id # id}

\* ORDER BY datetime(updated_at) DESC, id DESC
OrderIdAscending(a, b) ==
    \/ a.updated_at > b.updated_at
    \/ a.updated_at = b.updated_at /\ a.id < b.id
OrderBefore(a, b) ==
    \/ a.updated_at > b.updated_at
    \/ a.updated_at = b.updated_at /\ a.id > b.id

RECURSIVE OrderBy(_)
OrderBy(rows) ==
    IF rows = {} THEN <<>>
    ELSE LET first == CHOOSE r \in rows : \A o \in rows \ {r} : OrderBefore(r, o)
         IN  <<first>> \o OrderBy(rows \ {first})

\* LIMIT ? OFFSET ?
LimitOffset(s, limit, offset) == SubSeq(s, offset + 1, Min(Len(s), offset + limit))

\* ---- db.py
\* f names the statement the engine fails at ("none": no failure).
\* "path": get_sqlite_db_path or sqlite3.connect raises, no connection exists;
\* "pragma": the connection is open and PRAGMA foreign_keys raises, so the
\* caller's conn stays None.
get_connection(f) ==
    IF f = "path" THEN [conn |-> FALSE, opened |-> 0]
    ELSE IF f = "pragma" THEN [conn |-> FALSE, opened |-> 1]
    ELSE [conn |-> TRUE, opened |-> 1]

\* finally: if conn is not None: conn.close()
Finally(gc) == open + gc.opened - (IF gc.conn THEN 1 ELSE 0)

FaultAllowed(f) == f = "pragma" => open < MaxLeaked

Request(id, title, content, limit, offset) ==
    [id |-> id, title |-> title, content |-> content, limit |-> limit, offset |-> offset]

Response(op, req, status, body, opened, stmts, f) ==
    [op |-> op, req |-> req, status |-> status, body |-> body,
     opened |-> opened, stmts |-> stmts, fault |-> f]

ensure_schema(f) ==
        LET gc == get_connection(f) IN
        /\ FaultAllowed(f)
        /\ open' = Finally(gc)
        /\ schema' = IF ~gc.conn \/ f = "table" THEN schema
                     ELSE IF f = "trigger" THEN (IF schema = "none" THEN "table" ELSE schema)
                     ELSE "full"
        /\ started' = (started \/ f = "none")
        /\ last' = Response("ensure_schema", Request(0, None, None, 0, 0),
                            IF f = "none" THEN HTTP_200_OK ELSE HTTP_500_INTERNAL_SERVER_ERROR,
                            None, gc.opened,
                            CASE f \in {"path", "pragma"} -> 0
                              [] f = "table" -> 1
                              [] f = "trigger" -> 2
                              [] OTHER -> 3, f)
        /\ UNCHANGED <<notes, seq, now, ever, deleted, workers>>

\* CURRENT_TIMESTAMP moves on by a second
Tick ==
    /\ now < MaxClock
    /\ now' = now + 1
    /\ UNCHANGED <<schema, started, notes, seq, open, last, ever, deleted, workers>>

Init ==
    /\ schema = "none"
    /\ started = FALSE
    /\ notes = {}
    /\ seq = 0
    /\ now = 0
    /\ open = 0
    /\ last = Response("none", Request(0, None, None, 0, 0), 0, None, 0, 0, "none")
    /\ ever = {}
    /\ deleted = {}
    /\ workers = [w \in 1 .. NumWorkers |-> [pc |-> "idle"]]

\* ---- notes.py, one action per handler (each request served alone)
create_note(title, content, f) ==
    /\ started
    /\
        LET req == Request(0, title, content, 0, 0)
            gc == get_connection(f)
            id == NextRowId(notes, seq)
            inserted == InsertStmt(notes, id, title, content, now)
            committed == gc.conn /\ f \in {"none", "select"}
            parsed == _parse_note_row(SelectById(inserted, id))
            sent == gc.conn /\ f = "none" /\ parsed.ok
        IN  IF ~NoteCreate(title, content)
            THEN /\ last' = Response("create", req, HTTP_422_UNPROCESSABLE_ENTITY,
                                     None, 0, 0, "none")
                 /\ UNCHANGED <<schema, started, notes, seq, now, open, ever, deleted, workers>>
            ELSE /\ FaultAllowed(f)
                 /\ committed => id <= MaxSeq
                 /\ open' = Finally(gc)
                 /\ notes' = IF committed THEN inserted ELSE notes
                 /\ seq' = IF committed THEN id ELSE seq
                 /\ ever' = IF committed THEN ever \cup {id} ELSE ever
                 /\ last' = Response("create", req,
                        IF sent THEN HTTP_201_CREATED ELSE HTTP_500_INTERNAL_SERVER_ERROR,
                        IF sent THEN parsed.note ELSE None,
                        gc.opened,
                        CASE ~gc.conn -> 0
                          [] f = "insert" -> 1
                          [] f = "commit" -> 2
                          [] OTHER -> 3, f)
                 /\ UNCHANGED <<schema, started, now, deleted, workers>>

ListValid(limit, offset) == ~(limit < 1 \/ limit > MaxLimit) /\ ~(offset < 0)

list_notes(limit, offset, f) ==
    /\ started
    /\
        LET req == Request(0, None, None, limit, offset)
            gc == get_connection(f)
            rows == LimitOffset(OrderBy(notes), limit, offset)
            sent == gc.conn /\ f = "none"
                    /\ \A k \in 1 .. Len(rows) : _parse_note_row(rows[k]).ok
        IN  IF ~ListValid(limit, offset)
            THEN /\ last' = Response("list", req, HTTP_422_UNPROCESSABLE_ENTITY,
                                     None, 0, 0, "none")
                 /\ UNCHANGED <<schema, started, notes, seq, now, open, ever, deleted, workers>>
            ELSE /\ FaultAllowed(f)
                 /\ open' = Finally(gc)
                 /\ last' = Response("list", req,
                        IF sent THEN HTTP_200_OK ELSE HTTP_500_INTERNAL_SERVER_ERROR,
                        IF sent THEN rows ELSE None,
                        gc.opened, IF gc.conn THEN 1 ELSE 0, f)
                 /\ UNCHANGED <<schema, started, notes, seq, now, ever, deleted, workers>>

IdValid(note_id) == ~(note_id <= 0)

get_note(note_id, f) ==
    /\ started
    /\
        LET req == Request(note_id, None, None, 0, 0)
            gc == get_connection(f)
            row == SelectById(notes, note_id)
            parsed == _parse_note_row(row)
            status == IF ~gc.conn \/ f # "none" THEN HTTP_500_INTERNAL_SERVER_ERROR
                      ELSE IF row = None THEN HTTP_404_NOT_FOUND
                      ELSE IF parsed.ok THEN HTTP_200_OK
                      ELSE HTTP_500_INTERNAL_SERVER_ERROR
        IN  IF ~IdValid(note_id)
            THEN /\ last' = Response("get", req, HTTP_422_UNPROCESSABLE_ENTITY,
                                     None, 0, 0, "none")
                 /\ UNCHANGED <<schema, started, notes, seq, now, open, ever, deleted, workers>>
            ELSE /\ FaultAllowed(f)
                 /\ open' = Finally(gc)
                 /\ last' = Response("get", req, status,
                        IF status = HTTP_200_OK THEN parsed.note ELSE None,
                        gc.opened, IF gc.conn THEN 1 ELSE 0, f)
                 /\ UNCHANGED <<schema, started, notes, seq, now, ever, deleted, workers>>

UpdateValidNoFieldCheck(note_id, title, content) == IdValid(note_id)
UpdateValid(note_id, title, content) ==
    IdValid(note_id) /\ ~(title = None /\ content = None)

update_note(note_id, title, content, f) ==
    /\ started
    /\
        LET req == Request(note_id, title, content, 0, 0)
            gc == get_connection(f)
            exists == SelectById(notes, note_id) # None
            \* content = NULL violates NOT NULL: sqlite3.IntegrityError
            integrity == title = None /\ content = None
            updated == UpdateStmt(notes, note_id, title, content, now, schema = "full")
            committed == gc.conn /\ exists /\ ~integrity /\ f \in {"none", "select"}
            parsed == _parse_note_row(SelectById(updated, note_id))
            status == IF ~gc.conn \/ f = "check" THEN HTTP_500_INTERNAL_SERVER_ERROR
                      ELSE IF ~exists THEN HTTP_404_NOT_FOUND
                      ELSE IF integrity \/ f # "none" \/ ~parsed.ok
                           THEN HTTP_500_INTERNAL_SERVER_ERROR
                      ELSE HTTP_200_OK
        IN  IF ~NoteUpdate(title, content) \/ ~UpdateValid(note_id, title, content)
            THEN /\ last' = Response("update", req, HTTP_422_UNPROCESSABLE_ENTITY,
                                     None, 0, 0, "none")
                 /\ UNCHANGED <<schema, started, notes, seq, now, open, ever, deleted, workers>>
            ELSE /\ FaultAllowed(f)
                 /\ open' = Finally(gc)
                 /\ notes' = IF committed THEN updated ELSE notes
                 /\ last' = Response("update", req, status,
                        IF status = HTTP_200_OK THEN parsed.note ELSE None,
                        gc.opened,
                        CASE ~gc.conn -> 0
                          [] f = "check" \/ ~exists -> 1
                          [] f = "update" \/ integrity -> 2
                          [] f = "commit" -> 3
                          [] OTHER -> 4, f)
                 /\ UNCHANGED <<schema, started, seq, now, ever, deleted, workers>>

delete_note(note_id, f) ==
    /\ started
    /\
        LET req == Request(note_id, None, None, 0, 0)
            gc == get_connection(f)
            remaining == DeleteStmt(notes, note_id)
            rowcount == Cardinality(notes) - Cardinality(remaining)
            committed == gc.conn /\ f = "none"
            status == IF ~committed THEN HTTP_500_INTERNAL_SERVER_ERROR
                      ELSE IF rowcount = 0 THEN HTTP_404_NOT_FOUND
                      ELSE HTTP_204_NO_CONTENT
        IN  IF ~IdValid(note_id)
            THEN /\ last' = Response("delete", req, HTTP_422_UNPROCESSABLE_ENTITY,
                                     None, 0, 0, "none")
                 /\ UNCHANGED <<schema, started, notes, seq, now, open, ever, deleted, workers>>
            ELSE /\ FaultAllowed(f)
                 /\ open' = Finally(gc)
                 /\ notes' = IF committed THEN remaining ELSE notes
                 /\ deleted' = IF status = HTTP_204_NO_CONTENT
                               THEN deleted \cup {note_id} ELSE deleted
                 /\ last' = Response("delete", req, status, None, gc.opened,
                        CASE ~gc.conn -> 0
                          [] f = "delete" -> 1
                          [] OTHER -> 2, f)
                 /\ UNCHANGED <<schema, started, seq, now, ever, workers>>

\* ---- every request served alone, the engine never failing
Next ==
    \/ ensure_schema("none")
    \/ Tick
    \/ \E p \in CreateInputs : create_note(p[1], p[2], "none")
    \/ \E p \in ListInputs : list_notes(p[1], p[2], "none")
    \/ \E i \in IdInputs : get_note(i, "none")
    \/ \E p \in UpdateInputs : update_note(p[1], p[2][1], p[2][2], "none")
    \/ \E i \in IdInputs : delete_note(i, "none")

Spec == Init /\ [][Next]_vars

\* ---- the engine may fail at any statement (sqlite3.Error) and
\* get_connection at either of its steps
FaultUpdateInputs == {<<1, <<None, ContentY>>>>, <<0, <<TitleA, None>>>>}

FaultNext ==
    \/ \E f \in {"none", "path", "pragma", "table", "trigger", "commit"} : ensure_schema(f)
    \/ Tick
    \/ \E p \in {<<TitleA, ContentX>>, <<TitleLong, ContentX>>},
          f \in {"none", "path", "pragma", "insert", "commit", "select"} :
            create_note(p[1], p[2], f)
    \/ \E p \in {<<MaxLimit, 0>>, <<0, 0>>}, f \in {"none", "path", "pragma", "select"} :
            list_notes(p[1], p[2], f)
    \/ \E i \in 0 .. 1, f \in {"none", "path", "pragma", "select"} : get_note(i, f)
    \/ \E p \in FaultUpdateInputs,
          f \in {"none", "path", "pragma", "check", "update", "commit", "select"} :
            update_note(p[1], p[2][1], p[2][2], f)
    \/ \E i \in 0 .. 1, f \in {"none", "path", "pragma", "delete", "commit"} :
            delete_note(i, f)

FaultSpec == Init /\ [][FaultNext]_vars

\* ---- requests served concurrently by worker threads, one statement at a
\* time; each statement and its commit are one step of the engine.
\* get_note, list_notes and delete_note execute a single statement.
Idle == [pc |-> "idle"]

\* update_note up to its existence check: SELECT id FROM notes WHERE id = ?
update_note_check(w, note_id, title, content) ==
    LET req == Request(note_id, title, content, 0, 0) IN
    /\ started
    /\ workers[w] = Idle
    /\ IF ~NoteUpdate(title, content) \/ ~UpdateValid(note_id, title, content)
       THEN /\ last' = Response("update", req, HTTP_422_UNPROCESSABLE_ENTITY,
                                None, 0, 0, "none")
            /\ UNCHANGED <<open, workers>>
       ELSE IF SelectById(notes, note_id) = None
       THEN /\ last' = Response("update", req, HTTP_404_NOT_FOUND, None, 1, 1, "none")
            /\ UNCHANGED <<open, workers>>
       ELSE /\ workers' = [workers EXCEPT ![w] = [pc |-> "update", req |-> req]]
            /\ open' = open + 1
            /\ UNCHANGED last
    /\ UNCHANGED <<schema, started, notes, seq, now, ever, deleted>>

\* UPDATE notes SET ... WHERE id = ?; conn.commit()
update_note_update(w) ==
    /\ workers[w].pc = "update"
    /\ notes' = UpdateStmt(notes, workers[w].req.id, workers[w].req.title,
                           workers[w].req.content, now, schema = "full")
    /\ workers' = [workers EXCEPT ![w].pc = "updated"]
    /\ UNCHANGED <<schema, started, seq, now, open, last, ever, deleted>>

\* the re-read, _parse_note_row and finally: conn.close()
update_note_select(w) ==
    /\ workers[w].pc = "updated"
    /\ LET parsed == _parse_note_row(SelectById(notes, workers[w].req.id)) IN
        last' = Response("update", workers[w].req,
                    IF parsed.ok THEN HTTP_200_OK ELSE HTTP_500_INTERNAL_SERVER_ERROR,
                    parsed.note, 1, 4, "none")
    /\ open' = open - 1
    /\ workers' = [workers EXCEPT ![w] = Idle]
    /\ UNCHANGED <<schema, started, notes, seq, now, ever, deleted>>

\* create_note up to conn.commit()
create_note_insert(w, title, content) ==
    LET req == Request(0, title, content, 0, 0)
        id == NextRowId(notes, seq)
    IN
    /\ started
    /\ workers[w] = Idle
    /\ IF ~NoteCreate(title, content)
       THEN /\ last' = Response("create", req, HTTP_422_UNPROCESSABLE_ENTITY,
                                None, 0, 0, "none")
            /\ UNCHANGED <<notes, seq, ever, open, workers>>
       ELSE /\ id <= MaxSeq
            /\ notes' = InsertStmt(notes, id, title, content, now)
            /\ seq' = id
            /\ ever' = ever \cup {id}
            /\ open' = open + 1
            /\ workers' = [workers EXCEPT ![w] = [pc |-> "inserted", req |-> [req EXCEPT !.id = id]]]
            /\ UNCHANGED last
    /\ UNCHANGED <<schema, started, now, deleted>>

\* the re-read, _parse_note_row and finally: conn.close()
create_note_select(w) ==
    /\ workers[w].pc = "inserted"
    /\ LET parsed == _parse_note_row(SelectById(notes, workers[w].req.id)) IN
        last' = Response("create", [workers[w].req EXCEPT !.id = 0],
                    IF parsed.ok THEN HTTP_201_CREATED ELSE HTTP_500_INTERNAL_SERVER_ERROR,
                    parsed.note, 1, 3, "none")
    /\ open' = open - 1
    /\ workers' = [workers EXCEPT ![w] = Idle]
    /\ UNCHANGED <<schema, started, notes, seq, now, ever, deleted>>

WorkerUpdateInputs ==
    (1 .. MaxSeq) \X {<<TitleB, None>>, <<None, ContentY>>, <<None, None>>}

WorkerNext ==
    \/ ensure_schema("none")
    \/ Tick
    \/ \E w \in 1 .. NumWorkers, p \in {<<TitleA, ContentX>>, <<TitleA, ContentEmpty>>} :
            create_note_insert(w, p[1], p[2])
    \/ \E w \in 1 .. NumWorkers : create_note_select(w)
    \/ \E w \in 1 .. NumWorkers, p \in WorkerUpdateInputs :
            update_note_check(w, p[1], p[2][1], p[2][2])
    \/ \E w \in 1 .. NumWorkers : update_note_update(w)
    \/ \E w \in 1 .. NumWorkers : update_note_select(w)
    \/ \E i \in 1 .. MaxSeq : get_note(i, "none")
    \/ \E i \in 1 .. MaxSeq : delete_note(i, "none")
    \/ list_notes(MaxLimit, 0, "none")

WorkerSpec == Init /\ [][WorkerNext]_vars

\* ======================================================================
\* Properties
\* ======================================================================
Created(r) == r.op = "create" /\ r.status = HTTP_201_CREATED
Updated(r) == r.op = "update" /\ r.status = HTTP_200_OK

\* C1: create_note with a title of 1..200 and a content of 1..50,000
\* characters returns 201 and a record with a positive id, the submitted title
\* and content and updated_at = created_at; the get_note of that id issued
\* next returns 200 and the same record.
C1_CreateResponse ==
    last.op = "create" =>
        /\ (/\ last.req.title.len \in 1 .. 200
            /\ last.req.content.len \in 1 .. 50000) => last.status = 201
        /\ last.status = 201 =>
            /\ last.body.id > 0
            /\ last.body.title = last.req.title
            /\ last.body.content = last.req.content
            /\ last.body.updated_at = last.body.created_at
            /\ last.body \in notes

C1_CreateThenGet ==
    /\ []C1_CreateResponse
    /\ [][(Created(last) /\ last'.op = "get" /\ last'.req.id = last.body.id)
            => (last'.status = 200 /\ last'.body = last.body)]_vars

C1_Witness ==
    /\ Created(last)
    /\ last.body.id = MaxSeq
    /\ last.body.title.len = 200
    /\ last.body.content.len = 50000
    /\ Cardinality(notes) = 1

\* C2: a successful update_note sets exactly the supplied fields of the note
\* to the supplied values, keeps its other field, its id and its created_at,
\* leaves every other note as it was, and sets updated_at to a value no
\* earlier than the previous one.
C2_PartialUpdate ==
    [][Updated(last') =>
        LET id == last'.req.id
            old == SelectById(notes, id)
            new == SelectById(notes', id)
        IN  /\ old # None /\ new # None
            /\ new.title = (IF last'.req.title # None THEN last'.req.title ELSE old.title)
            /\ new.content = (IF last'.req.content # None THEN last'.req.content
                              ELSE old.content)
            /\ new.id = old.id
            /\ new.created_at = old.created_at
            /\ new.updated_at >= old.updated_at
            /\ notes' \ {new} = notes \ {old}
            /\ last'.body = new]_vars

C2_Witness ==
    /\ Updated(last)
    /\ last.req.title = None
    /\ last.body.title = TitleB
    /\ last.body.content = ContentY
    /\ last.body.updated_at > last.body.created_at
    /\ Cardinality(notes) = 2

\* C3: once delete_note has returned 204 for an id, get_note of that id
\* returns 404 ever after; delete_note of a positive id with no row returns
\* 404 and leaves the stored notes as they were.
C3_DeletedStaysGone ==
    /\ \A d \in deleted : d \notin RowIds(notes)
    /\ (last.op = "get" /\ last.req.id \in deleted) => last.status = 404

C3_DeleteSemantics ==
    /\ []C3_DeletedStaysGone
    /\ [][(/\ last' # last
           /\ last'.op = "delete"
           /\ last'.req.id > 0
           /\ last'.req.id \notin RowIds(notes))
            => (last'.status = 404 /\ notes' = notes /\ deleted' = deleted)]_vars

C3_Witness ==
    /\ last.op = "get"
    /\ last.req.id \in deleted
    /\ last.status = 404
    /\ seq > last.req.id
    /\ notes # {}

\* C4: list_notes with limit in 1..500 and offset >= 0 returns 200 and exactly
\* the notes at positions offset+1 .. offset+limit of all stored notes sorted
\* by updated_at descending, then id descending.
C4_ListResult ==
    (/\ last.op = "list"
     /\ last.req.limit \in 1 .. 500
     /\ last.req.offset >= 0) =>
        /\ last.status = 200
        /\ Len(last.body) = Min(last.req.limit,
                                Max(0, Cardinality(notes) - last.req.offset))
        /\ \A k \in 1 .. Len(last.body) :
            /\ last.body[k] \in notes
            /\ Cardinality({r \in notes :
                    \/ r.updated_at > last.body[k].updated_at
                    \/ /\ r.updated_at = last.body[k].updated_at
                       /\ r.id > last.body[k].id}) = last.req.offset + k - 1

C4_Witness ==
    /\ last.op = "list"
    /\ last.status = 200
    /\ Len(last.body) = 2
    /\ last.body[1].updated_at = last.body[2].updated_at
    /\ last.body[1].id > last.body[2].id

\* C5: a request that breaks a validation rule (list: limit outside 1..500 or
\* offset < 0; get, update, delete: id <= 0; update: neither title nor
\* content) is answered 422 with no connection opened and no statement
\* executed, and the store is left as it was.
C5_Invalid(r) ==
    \/ r.op = "list" /\ (r.req.limit < 1 \/ r.req.limit > 500 \/ r.req.offset < 0)
    \/ r.op \in {"get", "update", "delete"} /\ r.req.id <= 0
    \/ r.op = "update" /\ r.req.title = None /\ r.req.content = None

C5_ValidationFirst ==
    [][C5_Invalid(last') =>
        /\ last'.status = 422
        /\ last'.opened = 0
        /\ last'.stmts = 0
        /\ UNCHANGED <<notes, seq, open, schema, ever, deleted>>]_vars

C5_Witness ==
    /\ last.op = "update"
    /\ last.req.title = None
    /\ last.req.content = None
    /\ last.req.id > 0
    /\ last.req.id \notin ever
    /\ last.status = 422

\* C6 as claimed: a content-only update_note of the note just created returns
\* 200, the title unchanged, the content replaced, and an updated_at strictly
\* later than the one create_note returned.
C6_StrictlyLater ==
    [][(/\ Created(last)
        /\ Updated(last')
        /\ last'.req.id = last.body.id
        /\ last'.req.title = None)
        => (/\ last'.body.title = last.body.title
            /\ last'.body.content = last'.req.content
            /\ last'.body.updated_at > last.body.updated_at)]_vars

\* C6 as amended: ... and an updated_at no earlier than the one create_note
\* returned: strictly later exactly when CURRENT_TIMESTAMP, which counts whole
\* seconds, has moved on since the create.
C6_NotEarlier ==
    [][(/\ Created(last)
        /\ Updated(last')
        /\ last'.req.id = last.body.id
        /\ last'.req.title = None)
        => (/\ last'.body.title = last.body.title
            /\ last'.body.content = last'.req.content
            /\ last'.body.updated_at >= last.body.updated_at
            /\ (last'.body.updated_at > last.body.updated_at
                    <=> now' > last.body.updated_at))]_vars

C6_Witness ==
    /\ Updated(last)
    /\ last.req.title = None
    /\ last.body.content = ContentY
    /\ last.body.title = TitleA
    /\ last.body.updated_at = last.body.created_at
    /\ last.body.id = seq

\* C8: no two stored notes share an id, and the id create_note assigns is
\* positive and is the id of no note created before, deleted ones included.
C8_UniqueIds ==
    /\ \A r1, r2 \in notes : r1.id = r2.id => r1 = r2
    /\ \A r \in notes : r.id > 0 /\ r.id \in ever

C8_NoReuse ==
    /\ []C8_UniqueIds
    /\ [][(Created(last') /\ last' # last)
            => (last'.body.id > 0 /\ last'.body.id \notin ever)]_vars

C8_Witness ==
    /\ Created(last)
    /\ \E d \in deleted :
        /\ \A r \in notes \ {last.body} : r.id < d
        /\ last.body.id > d

\* C9: every stored note has updated_at >= created_at, a title of 1..200 and
\* a content of 1..50,000 characters, and keeps its created_at for as long
\* as it is stored.
C9_WellFormed ==
    \A r \in notes :
        /\ r.updated_at >= r.created_at
        /\ r.title.len >= 1 /\ r.title.len <= 200
        /\ r.content.len >= 1 /\ r.content.len <= 50000

C9_NoteInvariant ==
    /\ []C9_WellFormed
    /\ [][\A r \in notes : \A r2 \in notes' :
            r.id = r2.id => r.created_at = r2.created_at]_vars

C9_Witness ==
    /\ \E r \in notes :
        /\ r.updated_at > r.created_at
        /\ r.title.len = 200
        /\ r.content.len = 1
    /\ deleted # {}

\* C7 as claimed: a valid update_note request (positive id, a field supplied)
\* ends in 200 or in 404, whatever statements of other requests run between
\* its own.
C7_UpdateOutcomes ==
    (/\ last.op = "update"
     /\ last.req.id > 0
     /\ ~(last.req.title = None /\ last.req.content = None))
        => last.status \in {200, 404}

\* C10 as claimed: no connection is left open when an operation has finished,
\* and no operation opens more than one.
C10_ConnectionsReleased ==
    /\ open = 0
    /\ last.opened <= 1

====
